---- MODULE Spec2Model ----
(***************************************************************************)
(* chemdemo: the molecule pipeline of pubchemtest/index.js                 *)
(* (computeAtomMapping, computeAlignment, getMoleculePoints) and the two   *)
(* viewers that animate the loaded sequence: the sprite viewer             *)
(* (src/components/MolecularViewer.jsx) and the instanced-mesh viewer      *)
(* (PointCloudBillboard.jsx).                                              *)
(*                                                                         *)
(* Indices are 0-based as in the source; a JavaScript array is a sequence  *)
(* read through At(s, i) = s[i + 1].  -1 is the "unmatched" mark of        *)
(* computeAtomMapping.                                                     *)
(***************************************************************************)
EXTENDS Integers, Sequences, FiniteSets, TLC

\* ------------------------------------------------------------------ bounds
\* Largest molecule (atoms) and longest bond list the inputs are drawn from.
MaxAtoms == 3
MaxBonds == 2

\* ELEMENTS indexes the inputs use: 1 = "C", 3 = "O" (index.js ELEMENTS).
ElemChoices == {1, 3}

\* Longest list of compounds handed to loadMoleculesOnce.
MaxCompounds == 3

\* Transitions begun while another one is in flight, per run, and the values
\* of progress at which one may begin: before the first frame, after it, at
\* the 0.4 of the documented scenario, at the change of branch of the ease
\* function, and before the last frame.
MaxSupersedes == 1
MidFlightPoints == {0, 2, 40, 50, 98}

\* Sprites and bond cylinders the viewers allocate (maxPoints = 150 and
\* maxBonds = 500 in the source): more than any molecule of the catalogue has.
maxPoints == 5
maxBonds == 4

\* progress is counted in hundredths: 1 is ProgressOne, the 0.02 of a tick is
\* ProgressStep.  The doubles of the source stay within 1e-15 of these values,
\* take the same branch of the ease function, and reach exactly 1 on tick 50.
ProgressOne == 100
ProgressStep == 2

\* Coordinates are fixed-point numbers: the integer v stands for v / UNIT, and
\* a quotient is rounded to the nearest such number where JavaScript rounds it
\* to the nearest double.
UNIT == 100

VARIABLES
    molA, molB,        \* computeAtomMapping: its two arguments
    mapping, usedB,    \* computeAtomMapping: its locals
    mi,                \* computeAtomMapping: the outer loop's i
    compoundsToLoad,   \* loadMoleculesOnce: the names it was called with
    POSITION_SETS,     \* the module-level sequence of loaded molecules
    loadPrev,          \* loadMoleculesOnce: prev
    loadIdx,           \* loadMoleculesOnce: position of the for-of loop in the names
    loadState,         \* loadMoleculesOnce: "running", "returned" or "rejected"
    lastCall,          \* what the last getMoleculePoints call did in its alignment step
    mountPrev,         \* a second, concurrent call of loadMoleculesOnce: its prev
    mountIdx,          \* the second call: position of its for-of loop in the names
    mountState,        \* the second call: "idle", "running", "returned" or "rejected"
    viewer,            \* which component is mounted: "sprite", "instanced" or "none"
    sharedRenderer,    \* whether the one-time THREE setup has run (sharedRenderer # null)
    currentSet, progress, animating,   \* the viewer's module-level animation state
    sharedSprites,     \* sprite viewer: one record per sprite
    sharedBondLines,   \* sprite viewer: one record per bond line
    sharedAtomMeshes,  \* instanced viewer: element index -> instanced mesh
    atomStart, atomTarget,   \* instanced viewer: element index -> positions by instance
    sharedBondMesh,    \* instanced viewer: the bond cylinders
    lastIdx,           \* history: idx of the last transition(idx), -1 before the first
    ticks,             \* history: animate ticks that advanced progress since then
    supersedes         \* history: transitions called while one was in flight

mapVars == <<molA, molB, mapping, usedB, mi>>
loadVars == <<compoundsToLoad, POSITION_SETS, loadPrev, loadIdx, loadState, lastCall>>
mountVars == <<mountPrev, mountIdx, mountState>>
animVars == <<currentSet, progress, animating>>
spriteVars == <<sharedSprites, sharedBondLines>>
instVars == <<sharedAtomMeshes, atomStart, atomTarget, sharedBondMesh>>
histVars == <<lastIdx, ticks, supersedes>>
viewVars == <<viewer, sharedRenderer, animVars, spriteVars, instVars, histVars>>
vars == <<mapVars, loadVars, mountVars, viewVars>>

\* ------------------------------------------------------------- JS arrays
At(s, i) == s[i + 1]
Has(s, i) == i \in 0..(Len(s) - 1)
Fill(n, v) == [k \in 1..n |-> v]
SetAt(s, i, v) == [s EXCEPT ![i + 1] = v]

Slice(s, a, b) ==
    LET lo == IF a < Len(s) THEN a ELSE Len(s)
        hi == IF b < Len(s) THEN b ELSE Len(s)
    IN IF hi <= lo THEN <<>> ELSE [k \in 1..(hi - lo) |-> s[lo + k]]

\* ------------------------------------------------------------- numbers
\* A parsed number or NaN.
Num(v) == [nan |-> FALSE, v |-> v]
NaN == [nan |-> TRUE, v |-> 0]

\* A point [x, y, z]: three numbers, or NaN in every coordinate.
Vec(x, y, z) == [nan |-> FALSE, c |-> <<x, y, z>>]
NaNVec == [nan |-> TRUE, c |-> <<0, 0, 0>>]

RoundDiv(a, b) == (2 * a + b) \div (2 * b)

Min(S) == CHOOSE x \in S : \A y \in S : x <= y
Max(S) == CHOOSE x \in S : \A y \in S : x >= y

Identity3 == <<<<1, 0, 0>>, <<0, 1, 0>>, <<0, 0, 1>>>>

\* index.js multiplyMatrixVec.
multiplyMatrixVec(M, v) ==
    [r \in 1..3 |-> M[r][1] * v[1] + M[r][2] * v[2] + M[r][3] * v[3]]

\* ------------------------------------------------------------- adjacency
\* index.js adjacency(): one Set per atom, each bond entered in both
\* directions.
adjacency(bonds, n) ==
    [a \in 0..(n - 1) |->
        {bonds[k].to : k \in {k \in 1..Len(bonds) : bonds[k].from = a}}
        \cup {bonds[k].from : k \in {k \in 1..Len(bonds) : bonds[k].to = a}}]

\* adj[b.from] or adj[b.to] is undefined for an endpoint outside 0..n-1 and
\* .add on it throws a TypeError.
adjacencyThrows(bonds, n) ==
    \E k \in 1..Len(bonds) :
        bonds[k].from \notin 0..(n - 1) \/ bonds[k].to \notin 0..(n - 1)

\* ---------------------------------------------------- computeAtomMapping
\* lines 38-39: the two `continue`s of the inner loop.
eligibleIgnoringUsed(A, B, used, i, j) ==
    At(A.elementIndexes, i) = At(B.elementIndexes, j)

eligibleAnyElement(A, B, used, i, j) ==
    ~At(used, j)

eligible(A, B, used, i, j) ==
    /\ ~At(used, j)
    /\ At(A.elementIndexes, i) = At(B.elementIndexes, j)

\* lines 42-47: neighbours of i already mapped onto a neighbour of j.
scoreMismatches(adjA, adjB, map, i, j) ==
    Cardinality({nei \in adjA[i] :
        nei < i /\ At(map, nei) # -1 /\ At(map, nei) \notin adjB[j]})

score(adjA, adjB, map, i, j) ==
    Cardinality({nei \in adjA[i] :
        nei < i /\ At(map, nei) # -1 /\ At(map, nei) \in adjB[j]})

\* line 49: a later candidate replaces the best one only with a higher score.
improvesOrTies(sc, bestScore) == sc >= bestScore

improves(sc, bestScore) == sc > bestScore

\* lines 35-53: the inner loop over j, from j with the best pair so far.
RECURSIVE innerLoop(_, _, _, _, _, _, _, _, _)
innerLoop(A, B, adjA, adjB, map, used, i, j, best) ==
    IF j >= Len(B.atoms) THEN best
    ELSE LET sc == score(adjA, adjB, map, i, j)
             nb == IF eligible(A, B, used, i, j) /\ improves(sc, best.bestScore)
                   THEN [bestJ |-> j, bestScore |-> sc]
                   ELSE best
         IN innerLoop(A, B, adjA, adjB, map, used, i, j + 1, nb)

\* lines 34-58: one iteration of the outer loop, on st = [mapping, usedB].
mapIter(A, B, st, i) ==
    LET adjA == adjacency(A.bonds, Len(A.atoms))
        adjB == adjacency(B.bonds, Len(B.atoms))
        best == innerLoop(A, B, adjA, adjB, st.mapping, st.usedB, i, 0,
                          [bestJ |-> -1, bestScore |-> -1])
    IN IF best.bestJ # -1
       THEN [mapping |-> SetAt(st.mapping, i, best.bestJ),
             usedB |-> SetAt(st.usedB, best.bestJ, TRUE)]
       ELSE st

RECURSIVE outerLoop(_, _, _, _)
outerLoop(A, B, st, i) ==
    IF i >= Len(A.atoms) THEN st
    ELSE outerLoop(A, B, mapIter(A, B, st, i), i + 1)

\* lines 25-60.  The caller has checked adjacencyThrows.
computeAtomMapping(A, B) ==
    outerLoop(A, B, [mapping |-> Fill(Len(A.atoms), -1),
                     usedB |-> Fill(Len(B.atoms), FALSE)], 0).mapping

\* ------------------------------------------------------ computeAlignment
AnyNaN(points) == \E k \in 1..Len(points) : points[k].nan

\* lines 65-74: centroid().
centroid(points) ==
    [d \in 1..3 |->
        LET sum[k \in 0..Len(points)] ==
                IF k = 0 THEN 0 ELSE sum[k - 1] + points[k].c[d]
        IN RoundDiv(sum[Len(points)], Len(points))]

\* lines 86-87: the points less their centroid.
centered(points, c) ==
    [k \in 1..Len(points) |-> [d \in 1..3 |-> points[k].c[d] - c[d]]]

\* lines 90-97: H = A^T * B.
covariance(A, B) ==
    [r \in 1..3 |-> [c \in 1..3 |->
        LET sum[k \in 0..Len(A)] ==
                IF k = 0 THEN 0 ELSE sum[k - 1] + A[k][r] * B[k][c]
        IN sum[Len(A)]]]

ZeroMatrix == [r \in 1..3 |-> [c \in 1..3 |-> 0]]

\* Whether the points lie in one plane (three or fewer always do): then H has
\* rank below 3 and M^T M an eigenvalue 0.
Triple(u, v, w) ==
    u[1] * (v[2] * w[3] - v[3] * w[2])
    - u[2] * (v[1] * w[3] - v[3] * w[1])
    + u[3] * (v[1] * w[2] - v[2] * w[1])

Flat(points) ==
    LET d(k) == [x \in 1..3 |-> points[k].c[x] - points[1].c[x]]
    IN \A i, j, k \in 1..Len(points) : Triple(d(i), d(j), d(k)) = 0

\* lines 125-176: svd3x3() over eigenSymmetric().  eigenSymmetric runs 15
\* power-iteration steps from Math.random() start vectors and deflates; its
\* floating-point result is not computed here but drawn from the outcomes it
\* can have.  For H of full rank V and U come out orthonormal up to the
\* iteration's error and V-rows times U^T, after the sign change of lines
\* 110-113, is a proper rotation: one of ProperRotations.  For H of rank below
\* 3 the deflated matrix is 0 up to rounding: the next start vector is either
\* mapped to 0 and normalised to NaN (0 / 0), or to rounding noise, which
\* yields a matrix that is no rotation.  For H = 0 the first iteration already
\* gives 0 / 0.
QuarterZ == <<<<0, -1, 0>>, <<1, 0, 0>>, <<0, 0, 1>>>>
Squash == <<<<1, 0, 0>>, <<0, 1, 0>>, <<0, 0, 0>>>>
ProperRotations == {Identity3, QuarterZ}

svdOutcomes(H, flat) ==
    IF H = ZeroMatrix THEN {[nan |-> TRUE, R |-> ZeroMatrix]}
    ELSE IF flat THEN {[nan |-> TRUE, R |-> ZeroMatrix], [nan |-> FALSE, R |-> Squash]}
    ELSE {[nan |-> FALSE, R |-> R] : R \in ProperRotations}

IdentityTransform == [nan |-> FALSE, R |-> Identity3, t |-> <<0, 0, 0>>]
NaNTransform == [nan |-> TRUE, R |-> ZeroMatrix, t |-> <<0, 0, 0>>]

\* lines 79-120: the transforms computeAlignment can return.
computeAlignment(pointsA, pointsB) ==
    IF Len(pointsA) = 0 THEN {IdentityTransform}
    ELSE IF AnyNaN(pointsA) \/ AnyNaN(pointsB) THEN {NaNTransform}
    ELSE LET cA == centroid(pointsA)
             cB == centroid(pointsB)
             H == covariance(centered(pointsA, cA), centered(pointsB, cB))
         IN {IF o.nan THEN NaNTransform
             ELSE LET RcA == multiplyMatrixVec(o.R, cA)
                  IN [nan |-> FALSE, R |-> o.R,
                      t |-> [d \in 1..3 |-> cB[d] - RcA[d]]]
             : o \in svdOutcomes(H, Flat(pointsA) \/ Flat(pointsB))}

\* lines 257-260: p' = R p + t.
applyTransform(tr, p) ==
    IF tr.nan \/ p.nan THEN NaNVec
    ELSE LET rotated == multiplyMatrixVec(tr.R, p.c)
         IN [nan |-> FALSE, c |-> [d \in 1..3 |-> rotated[d] + tr.t[d]]]

\* ------------------------------------------------------ getMoleculePoints
\* index.js lines 6-8.
ELEMENTS == <<"H", "C", "N", "O", "F", "P", "S", "Cl", "Br", "I", "Unknown">>

\* lines 238-240: ELEMENTS.indexOf(a.element), or the last index.
elementIndex(sym) ==
    IF \E k \in 1..Len(ELEMENTS) : ELEMENTS[k] = sym
    THEN (CHOOSE k \in 1..Len(ELEMENTS) : ELEMENTS[k] = sym) - 1
    ELSE Len(ELEMENTS) - 1

\* previousMol = null, and atomMapping = null.
NoMol == [null |-> TRUE]
NoMapping == <<>>

Throw(e) == [ok |-> FALSE, error |-> e]

\* line 226: a line whose x, y or z did not parse is dropped.
coordsParsed(line) == ~line.x.nan /\ ~line.y.nan /\ ~line.z.nan

\* lines 247-249: the matched pairs [atoms[i], previousMol.atoms[j]].
RECURSIVE matchedPairs(_, _, _, _)
matchedPairs(atoms, map, prevAtoms, i) ==
    IF i >= Len(map) THEN <<>>
    ELSE (IF At(map, i) # -1
          THEN <<[a |-> At(atoms, i), b |-> At(prevAtoms, At(map, i))]>>
          ELSE <<>>)
         \o matchedPairs(atoms, map, prevAtoms, i + 1)

\* line 251: the alignment runs on three pairs or more.
enoughPairsFromOne(pairs) == Len(pairs) >= 1

enoughPairs(pairs) == Len(pairs) >= 3

\* lines 251-261: the atoms after the alignment step, one per outcome of
\* computeAlignment, or the atoms as parsed.
alignStep(atoms, pairs) ==
    IF enoughPairs(pairs)
    THEN {[called |-> TRUE, transform |-> tr,
           atoms |-> [k \in 1..Len(atoms) |-> applyTransform(tr, atoms[k])]]
          : tr \in computeAlignment([k \in 1..Len(pairs) |-> pairs[k].a],
                                    [k \in 1..Len(pairs) |-> pairs[k].b])}
    ELSE {[called |-> FALSE, transform |-> NaNTransform, atoms |-> atoms]}

\* lines 264-289: centre on the bounding box's midpoint and scale down to a
\* largest dimension of 1.  Math.min / Math.max of a NaN is NaN, and so is
\* every coordinate then.
normalize(atoms) ==
    IF AnyNaN(atoms) THEN [k \in 1..Len(atoms) |-> NaNVec]
    ELSE LET lo(d) == Min({atoms[k].c[d] : k \in 1..Len(atoms)})
             hi(d) == Max({atoms[k].c[d] : k \in 1..Len(atoms)})
             center == [d \in 1..3 |-> RoundDiv(lo(d) + hi(d), 2)]
             maxDim == Max({hi(d) - lo(d) : d \in 1..3})
         IN [k \in 1..Len(atoms) |->
                [nan |-> FALSE,
                 c |-> [d \in 1..3 |->
                    IF maxDim > UNIT
                    THEN RoundDiv((atoms[k].c[d] - center[d]) * UNIT, maxDim)
                    ELSE atoms[k].c[d] - center[d]]]]

\* lines 212-291 on the record `rec` the data source returned: the outcomes of
\* the call, a thrown error or a molecule with what the alignment step did.
parseAndAlign(rec, previousMol) ==
    IF rec.lines < 4 THEN {Throw("SDF too short")}
    ELSE
    LET atomLines == Slice(rec.body, 0, rec.atomCount)
        bondLines == Slice(rec.body, rec.atomCount, rec.atomCount + rec.bondCount)
        atomsRaw == SelectSeq(atomLines, coordsParsed)
        bonds == [k \in 1..Len(bondLines) |->
                    [from |-> bondLines[k].from - 1, to |-> bondLines[k].to - 1,
                     type |-> bondLines[k].type]]
        atoms == [k \in 1..Len(atomsRaw) |->
                    Vec(atomsRaw[k].x.v, atomsRaw[k].y.v, atomsRaw[k].z.v)]
        elementIndexes == [k \in 1..Len(atomsRaw) |-> elementIndex(atomsRaw[k].element)]
        parsed == [atoms |-> atoms, elementIndexes |-> elementIndexes, bonds |-> bonds]
    IN IF Len(atomsRaw) = 0 THEN {Throw("Parsed zero atoms")}
       ELSE IF previousMol = NoMol
       THEN {[ok |-> TRUE,
              mol |-> [atoms |-> normalize(atoms), elementIndexes |-> elementIndexes,
                       bonds |-> bonds, atomMapping |-> NoMapping],
              step |-> [mapped |-> FALSE, pairs |-> 0, called |-> FALSE,
                        transform |-> NaNTransform, before |-> atoms, after |-> atoms]]}
       ELSE IF \/ adjacencyThrows(bonds, Len(atoms))
               \/ adjacencyThrows(previousMol.bonds, Len(previousMol.atoms))
       THEN {Throw("TypeError")}
       ELSE LET atomMapping == computeAtomMapping(parsed, previousMol)
                pairs == matchedPairs(atoms, atomMapping, previousMol.atoms, 0)
            IN {[ok |-> TRUE,
                 mol |-> [atoms |-> normalize(o.atoms), elementIndexes |-> elementIndexes,
                          bonds |-> bonds, atomMapping |-> atomMapping],
                 step |-> [mapped |-> TRUE, pairs |-> Len(pairs), called |-> o.called,
                           transform |-> o.transform, before |-> atoms, after |-> o.atoms]]
                : o \in alignStep(atoms, pairs)}

\* ---------------------------------------------------------- data source
\* What Compound.fromName and the SDF download return for a name: a record of
\* `lines` lines, the counts of its 4th line, and the lines after it, each with
\* what the atom and bond parsers read off it.  Coordinates are in whole
\* angstroms; bond lines count atoms from 1.
AtomLine(x, y, z, el) ==
    [x |-> Num(x * UNIT), y |-> Num(y * UNIT), z |-> Num(z * UNIT), element |-> el,
     from |-> 0, to |-> 0, type |-> 0]

BadAtomLine(el) ==
    [x |-> NaN, y |-> Num(0), z |-> Num(0), element |-> el,
     from |-> 0, to |-> 0, type |-> 0]

BondLine(from, to) ==
    [x |-> NaN, y |-> NaN, z |-> NaN, element |-> "",
     from |-> from, to |-> to, type |-> 1]

Sdf(atomLines, bondLines) ==
    [found |-> TRUE, lines |-> 4 + Len(atomLines) + Len(bondLines),
     atomCount |-> Len(atomLines), bondCount |-> Len(bondLines),
     body |-> atomLines \o bondLines]

Catalogue ==
    [name \in {"ethanol", "ether", "methanol", "methane", "ammonia", "azane",
               "carbon dioxide", "damaged", "unobtainium", "truncated", "blank"} |->
        CASE name = "ethanol" ->
                Sdf(<<AtomLine(0, 0, 0, "C"), AtomLine(2, 0, 0, "C"), AtomLine(3, 1, 0, "O")>>,
                    <<BondLine(1, 2), BondLine(2, 3)>>)
          [] name = "ether" ->
                Sdf(<<AtomLine(0, 0, 0, "C"), AtomLine(1, 1, 0, "O"), AtomLine(2, 0, 0, "C")>>,
                    <<BondLine(1, 2), BondLine(2, 3)>>)
          [] name = "methanol" ->
                Sdf(<<AtomLine(1, 0, 0, "O"), AtomLine(0, 0, 0, "C")>>,
                    <<BondLine(1, 2)>>)
          [] name = "methane" ->
                Sdf(<<AtomLine(0, 0, 0, "C")>>, <<>>)
          [] name = "ammonia" ->
                Sdf(<<AtomLine(0, 0, 0, "N"), AtomLine(1, 0, 0, "H"),
                      AtomLine(0, 1, 0, "H"), AtomLine(0, 0, 1, "H")>>,
                    <<BondLine(1, 2), BondLine(1, 3), BondLine(1, 4)>>)
          [] name = "azane" ->
                Sdf(<<AtomLine(5, 5, 0, "N"), AtomLine(5, 6, 0, "H"),
                      AtomLine(4, 5, 0, "H"), AtomLine(5, 5, 1, "H")>>,
                    <<BondLine(1, 2), BondLine(1, 3), BondLine(1, 4)>>)
          [] name = "carbon dioxide" ->
                Sdf(<<AtomLine(-1, 0, 0, "O"), AtomLine(0, 0, 0, "C"), AtomLine(1, 0, 0, "O")>>,
                    <<BondLine(1, 2), BondLine(2, 3)>>)
          [] name = "damaged" ->
                Sdf(<<BadAtomLine("C"), AtomLine(0, 0, 0, "O")>>, <<BondLine(1, 2)>>)
          [] name = "unobtainium" ->
                [found |-> FALSE, lines |-> 0, atomCount |-> 0, bondCount |-> 0,
                 body |-> <<>>]
          [] name = "truncated" ->
                [found |-> TRUE, lines |-> 2, atomCount |-> 0, bondCount |-> 0,
                 body |-> <<>>]
          [] name = "blank" ->
                Sdf(<<BadAtomLine("C")>>, <<>>)]

Names == DOMAIN Catalogue

\* lines 202-291: Compound.fromName or the download fails, or the record is
\* parsed, aligned to previousMol and normalised.
getMoleculePoints(name, previousMol) ==
    IF ~Catalogue[name].found THEN {Throw("Unable to download SDF")}
    ELSE parseAndAlign(Catalogue[name], previousMol)

\* --------------------------------------------- inputs of computeAtomMapping
\* The unordered atom pairs of an n-atom molecule, and a bond list for each
\* set of at most MaxBonds of them, in ascending (from, to) order.
PairsOf(n) == {p \in (0..(n - 1)) \X (0..(n - 1)) : p[1] < p[2]}

RECURSIVE BondList(_, _)
BondList(ps, n) ==
    IF ps = {} THEN <<>>
    ELSE LET p == CHOOSE q \in ps :
                    \A r \in ps : q[1] * n + q[2] <= r[1] * n + r[2]
         IN <<[from |-> p[1], to |-> p[2], type |-> 1]>>
                \o BondList(ps \ {p}, n)

BondLists(n) ==
    {BondList(ps, n) : ps \in {s \in SUBSET PairsOf(n) : Cardinality(s) <= MaxBonds}}

\* The mapping reads no coordinate: A's atom k lies at (k, 0, 0), B has the
\* same layout turned a quarter about Z and moved by (5, 5, 0).
LayoutA(n) == [k \in 1..n |-> Vec(k - 1, 0, 0)]
LayoutB(n) == [k \in 1..n |-> Vec(5, 5 + k - 1, 0)]

MapInputs(n, layout) ==
    [atoms : {layout}, elementIndexes : [1..n -> ElemChoices], bonds : BondLists(n)]

\* The variables of the loader before loadMoleculesOnce is ever called.
NoCall ==
    [mapped |-> FALSE, pairs |-> 0, called |-> FALSE, transform |-> NaNTransform,
     before |-> <<>>, after |-> <<>>]

LoadIdle ==
    /\ compoundsToLoad = <<>>
    /\ POSITION_SETS = <<>>
    /\ loadPrev = NoMol
    /\ loadIdx = 0
    /\ loadState = "idle"
    /\ lastCall = NoCall

\* The variables of the second call before it is made.
MountIdle ==
    /\ mountPrev = NoMol
    /\ mountIdx = 0
    /\ mountState = "idle"

\* The variables of the viewers before any component is mounted.
ViewUnmounted ==
    /\ sharedRenderer = FALSE
    /\ currentSet = 0 /\ progress = 0 /\ animating = FALSE
    /\ sharedSprites = <<>> /\ sharedBondLines = <<>>
    /\ sharedAtomMeshes = <<>> /\ atomStart = <<>> /\ atomTarget = <<>>
    /\ sharedBondMesh = [count |-> 0, bonds |-> <<>>]
    /\ lastIdx = -1 /\ ticks = 0 /\ supersedes = 0

ViewIdle == viewer = "none" /\ ViewUnmounted

\* The variables of computeAtomMapping when it is not the function under test.
MapIdle ==
    /\ molA = NoMol /\ molB = NoMol
    /\ mapping = <<>> /\ usedB = <<>> /\ mi = 0

\* ------------------------------------------------- SpecMap: the mapping run
\* Every pair of inputs up to the renaming of the two elements: A's atom 0 is
\* a carbon.
MapInit ==
    /\ molA \in {m \in UNION {MapInputs(n, LayoutA(n)) : n \in 1..MaxAtoms} :
                    At(m.elementIndexes, 0) = 1}
    /\ molB \in UNION {MapInputs(n, LayoutB(n)) : n \in 1..MaxAtoms}
    /\ mapping = Fill(Len(molA.atoms), -1)
    /\ usedB = Fill(Len(molB.atoms), FALSE)
    /\ mi = 0
    /\ LoadIdle
    /\ MountIdle
    /\ ViewIdle

\* One iteration of `for (let i = 0; i < nA; i++)`.
MapStep ==
    /\ mi < Len(molA.atoms)
    /\ LET st == mapIter(molA, molB, [mapping |-> mapping, usedB |-> usedB], mi)
       IN /\ mapping' = st.mapping
          /\ usedB' = st.usedB
    /\ mi' = mi + 1
    /\ UNCHANGED <<molA, molB>>
    /\ UNCHANGED <<loadVars, mountVars, viewVars>>

MapNext == MapStep

SpecMap == MapInit /\ [][MapNext]_vars

MapDone == mi = Len(molA.atoms)

\* -------------------------------------- SpecLoad: loadMoleculesOnce(names)
\* The lists of at most MaxCompounds names.
NameLists == UNION {[1..n -> Names] : n \in 0..MaxCompounds}

LoadInit ==
    /\ MapIdle
    /\ MountIdle
    /\ ViewIdle
    /\ compoundsToLoad \in NameLists
    /\ POSITION_SETS = <<>>
    /\ loadPrev = NoMol
    /\ loadIdx = 0
    /\ loadState = "idle"
    /\ lastCall = NoCall

\* PointCloudBillboard.jsx lines 55-57: a call of loadMoleculesOnce returns at
\* once when POSITION_SETS holds anything, and else starts the loop.
LoadCall ==
    /\ loadState # "running"
    /\ IF Len(POSITION_SETS) > 0
       THEN /\ loadState' = "returned"
            /\ UNCHANGED <<loadPrev, loadIdx>>
       ELSE /\ loadState' = "running"
            /\ loadPrev' = NoMol
            /\ loadIdx' = 0
    /\ UNCHANGED <<compoundsToLoad, POSITION_SETS, lastCall>>
    /\ UNCHANGED <<mapVars, mountVars, viewVars>>

\* lines 58-62: one iteration whose getMoleculePoints resolves.
LoadPush ==
    /\ loadState = "running"
    /\ loadIdx < Len(compoundsToLoad)
    /\ \E o \in getMoleculePoints(At(compoundsToLoad, loadIdx), loadPrev) :
          /\ o.ok
          /\ POSITION_SETS' = Append(POSITION_SETS, o.mol)
          /\ loadPrev' = o.mol
          /\ lastCall' = o.step
    /\ loadIdx' = loadIdx + 1
    /\ UNCHANGED <<compoundsToLoad, loadState>>
    /\ UNCHANGED <<mapVars, mountVars, viewVars>>

\* lines 58-59: getMoleculePoints throws; nothing catches it, the loop is left
\* and the promise of loadMoleculesOnce rejects.
LoadThrow ==
    /\ loadState = "running"
    /\ loadIdx < Len(compoundsToLoad)
    /\ \E o \in getMoleculePoints(At(compoundsToLoad, loadIdx), loadPrev) : ~o.ok
    /\ loadState' = "rejected"
    /\ UNCHANGED <<compoundsToLoad, POSITION_SETS, loadPrev, loadIdx, lastCall>>
    /\ UNCHANGED <<mapVars, mountVars, viewVars>>

\* line 63: the loop has run through the names.
LoadReturn ==
    /\ loadState = "running"
    /\ loadIdx = Len(compoundsToLoad)
    /\ loadState' = "returned"
    /\ UNCHANGED <<compoundsToLoad, POSITION_SETS, loadPrev, loadIdx, lastCall>>
    /\ UNCHANGED <<mapVars, mountVars, viewVars>>

LoadNext == LoadCall \/ LoadPush \/ LoadThrow \/ LoadReturn

SpecLoad == LoadInit /\ [][LoadNext]_vars

\* ------------------- SpecMounts: two mounts calling loadMoleculesOnce
\* Longest list of compounds two concurrent calls are given.
MaxMountCompounds == 2

MountLists == {l \in NameLists : Len(l) <= MaxMountCompounds}

\* PointCloudBillboard.jsx lines 55-57, MolecularViewer.jsx lines 42-46: the
\* init() of a second mount calls loadMoleculesOnce, at any time after the
\* first call and also while that one awaits a getMoleculePoints.
MountCall ==
    /\ loadState # "idle"
    /\ mountState = "idle"
    /\ IF Len(POSITION_SETS) > 0
       THEN /\ mountState' = "returned"
            /\ UNCHANGED <<mountPrev, mountIdx>>
       ELSE /\ mountState' = "running"
            /\ mountPrev' = NoMol
            /\ mountIdx' = 0
    /\ UNCHANGED <<mapVars, loadVars, viewVars>>

\* lines 58-62: one iteration of the second call's loop, against its own prev.
MountPush ==
    /\ mountState = "running"
    /\ mountIdx < Len(compoundsToLoad)
    /\ \E o \in getMoleculePoints(At(compoundsToLoad, mountIdx), mountPrev) :
          /\ o.ok
          /\ POSITION_SETS' = Append(POSITION_SETS, o.mol)
          /\ mountPrev' = o.mol
          /\ lastCall' = o.step
    /\ mountIdx' = mountIdx + 1
    /\ UNCHANGED <<compoundsToLoad, loadPrev, loadIdx, loadState, mountState>>
    /\ UNCHANGED <<mapVars, viewVars>>

MountThrow ==
    /\ mountState = "running"
    /\ mountIdx < Len(compoundsToLoad)
    /\ \E o \in getMoleculePoints(At(compoundsToLoad, mountIdx), mountPrev) : ~o.ok
    /\ mountState' = "rejected"
    /\ UNCHANGED <<mountPrev, mountIdx>>
    /\ UNCHANGED <<mapVars, loadVars, viewVars>>

MountReturn ==
    /\ mountState = "running"
    /\ mountIdx = Len(compoundsToLoad)
    /\ mountState' = "returned"
    /\ UNCHANGED <<mountPrev, mountIdx>>
    /\ UNCHANGED <<mapVars, loadVars, viewVars>>

MountsInit ==
    /\ MapIdle
    /\ MountIdle
    /\ ViewIdle
    /\ compoundsToLoad \in MountLists
    /\ POSITION_SETS = <<>>
    /\ loadPrev = NoMol
    /\ loadIdx = 0
    /\ loadState = "idle"
    /\ lastCall = NoCall

MountsNext ==
    \/ LoadCall \/ LoadPush \/ LoadThrow \/ LoadReturn
    \/ MountCall \/ MountPush \/ MountThrow \/ MountReturn

SpecMounts == MountsInit /\ [][MountsNext]_vars

\* ------------------------------------------------------------ the viewers
\* MolecularViewer.jsx line 100, PointCloudBillboard.jsx line 169: the ease
\* function, as the numerator of t over EaseOne.
EaseOne == ProgressOne * ProgressOne

\* An ease without its second branch.
easeFirstBranch(p) == 2 * p * p

ease(p) ==
    IF 2 * p < ProgressOne
    THEN 2 * p * p
    ELSE (4 * ProgressOne - 2 * p) * p - EaseOne

\* A progress that starts over at 1 instead of stopping there.
advanceLooping(p) == (p + ProgressStep) % ProgressOne

\* Math.min(progress + 0.02, 1).
advance(p) == Min({p + ProgressStep, ProgressOne})

\* An animate that never clears `animating`.
finishedNever(p) == FALSE

\* `if (progress >= 1) animating = false`.
finished(p) == p >= ProgressOne

\* THREE lerp: a + (b - a) * t, on a coordinate and on a vector.
lerp(a, b, t) == a + RoundDiv((b - a) * t, EaseOne)

lerpVectors(v1, v2, t) ==
    IF v1.nan \/ v2.nan THEN NaNVec
    ELSE [nan |-> FALSE, c |-> [d \in 1..3 |-> lerp(v1.c[d], v2.c[d], t)]]

Origin == Vec(0, 0, 0)

\* ---------------------------------------- the sprite viewer's scene
\* MolecularViewer.jsx lines 154-169: sprite i of the scene built from the
\* first molecule.
newSprite(first, i) ==
    LET pos == IF Has(first.atoms, i) THEN At(first.atoms, i) ELSE Origin
    IN [position |-> pos, opacity |-> 0, start |-> pos, target |-> pos,
        fadeStart |-> 0, fadeEnd |-> UNIT]

\* lines 172-186: one line per bond of the first molecule whose two atoms
\* exist.
bondInRange(mol, b) == ~(b.from >= Len(mol.atoms) \/ b.to >= Len(mol.atoms))

newBondLines(first) ==
    LET kept == SelectSeq(first.bonds, LAMBDA b : bondInRange(first, b))
    IN [k \in 1..Len(kept) |->
            LET start == At(first.atoms, kept[k].from)
                end == At(first.atoms, kept[k].to)
            IN [startStart |-> start, startEnd |-> end,
                targetStart |-> start, targetEnd |-> end,
                geomStart |-> start, geomEnd |-> end]]

\* lines 61-75 of transition: sprite i takes its start from where it is, and
\* its target from atomMapping[i], from i, or from where it is.
spriteTransition(s, i, mol) ==
    LET atoms == mol.atoms
        atomMapping == mol.atomMapping
        mappedInRange ==
            /\ atomMapping # NoMapping
            /\ Has(atomMapping, i)
            /\ At(atomMapping, i) # -1
            /\ At(atomMapping, i) < Len(atoms)
    IN IF mappedInRange
       THEN [s EXCEPT !.start = s.position, !.fadeStart = s.opacity,
                      !.target = At(atoms, At(atomMapping, i)), !.fadeEnd = UNIT]
       ELSE IF i < Len(atoms)
       THEN [s EXCEPT !.start = s.position, !.fadeStart = s.opacity,
                      !.target = At(atoms, i), !.fadeEnd = UNIT]
       ELSE [s EXCEPT !.start = s.position, !.fadeStart = s.opacity,
                      !.target = s.position, !.fadeEnd = 0]

\* lines 77-84 of transition: line i takes the endpoints of bond i as its
\* target.
lineTransition(line, i, mol) ==
    IF i >= Len(mol.bonds) THEN line
    ELSE IF bondInRange(mol, At(mol.bonds, i))
    THEN [line EXCEPT !.targetStart = At(mol.atoms, At(mol.bonds, i).from),
                      !.targetEnd = At(mol.atoms, At(mol.bonds, i).to)]
    ELSE line

\* lines 102-105 and 107-112 of animate.
spriteAnimate(s, t) ==
    [s EXCEPT !.position = lerpVectors(s.start, s.target, t),
              !.opacity = lerp(s.fadeStart, s.fadeEnd, t)]

lineAnimate(line, t) ==
    [line EXCEPT !.geomStart = lerpVectors(line.startStart, line.targetStart, t),
                 !.geomEnd = lerpVectors(line.startEnd, line.targetEnd, t)]

\* -------------------------------------- the instanced viewer's scene
\* An array slot never assigned.
Undefined == [undefined |-> TRUE]

\* The atoms of element e, by ascending index.
atomsOfElement(mol, e) ==
    SelectSeq([k \in 1..Len(mol.atoms) |-> k - 1], LAMBDA i : At(mol.elementIndexes, i) = e)

\* InstancedMesh.getMatrixAt / setMatrixAt on the positions of a mesh of
\* `capacity` instances: a write past the buffer is dropped, a read past it
\* yields undefined numbers, which the Vector3 constructor of pos.clone()
\* replaces by 0.
getMatrixAt(mesh, i) == IF Has(mesh.matrix, i) THEN At(mesh.matrix, i) ELSE Origin

setMatrixAt(mesh, i, pos) ==
    IF Has(mesh.matrix, i) THEN [mesh EXCEPT !.matrix = SetAt(mesh.matrix, i, pos)] ELSE mesh

\* array[i] = v on a JavaScript array: assigning past the end leaves holes.
Assign(arr, i, v) ==
    [k \in 1..Max({Len(arr), i + 1}) |->
        IF k = i + 1 THEN v ELSE IF k <= Len(arr) THEN arr[k] ELSE Undefined]

\* A bond cylinder between two points, and one scaled down to nothing.
Cylinder(start, end) == [hidden |-> FALSE, start |-> start, end |-> end]
HiddenCylinder == [hidden |-> TRUE, start |-> Origin, end |-> Origin]

\* PointCloudBillboard.jsx lines 294-327 and 342-358: one instanced mesh per
\* element of the first molecule, created with count = atomCount, and the
\* initial atoms written at mesh.count, mesh.count + 1, ...
initialMeshes(first) ==
    [e \in {At(first.elementIndexes, i) : i \in 0..(Len(first.atoms) - 1)} |->
        [count |-> 2 * Len(atomsOfElement(first, e)),
         matrix |-> Fill(Len(atomsOfElement(first, e)), Origin)]]

initialAtomStart(first) ==
    [e \in {At(first.elementIndexes, i) : i \in 0..(Len(first.atoms) - 1)} |->
        Fill(Len(atomsOfElement(first, e)), Undefined)
        \o [k \in 1..Len(atomsOfElement(first, e)) |->
                At(first.atoms, atomsOfElement(first, e)[k])]]

initialAtomTarget(first) ==
    [e \in {At(first.elementIndexes, i) : i \in 0..(Len(first.atoms) - 1)} |-> <<>>]

\* lines 338 and 365-391: the bond mesh of maxBonds cylinders and the bonds of
\* the first molecule.
initialBondMesh(first) ==
    [count |-> Len(first.bonds),
     bonds |-> [k \in 1..maxBonds |->
                  IF k <= Len(first.bonds)
                  THEN Cylinder(At(first.atoms, first.bonds[k].from),
                                At(first.atoms, first.bonds[k].to))
                  ELSE HiddenCylinder]]

\* line 91: the atom that slot i shows, -1 standing for the undefined that
\* atomMapping[i] is past the end of atomMapping.
mappedIndex(mol, i) ==
    IF mol.atomMapping = NoMapping THEN i
    ELSE IF ~Has(mol.atomMapping, i) THEN -1
    ELSE IF At(mol.atomMapping, i) # -1 THEN At(mol.atomMapping, i)
    ELSE i

\* lines 90-111: the atoms written to the instances 0, 1, ... of element e.
instancesOf(mol, e) ==
    SelectSeq([k \in 1..maxPoints |-> mappedIndex(mol, k - 1)],
              LAMBDA m : m >= 0 /\ m < Len(mol.atoms) /\ At(mol.elementIndexes, m) = e)

\* lines 72-81: the start of every counted instance is read off its matrix.
RECURSIVE savePositions(_, _, _)
savePositions(mesh, start, i) ==
    IF i >= mesh.count THEN start
    ELSE savePositions(mesh, Assign(start, i, getMatrixAt(mesh, i)), i + 1)

\* lines 85-115: targets and matrices of the instances of element e.
RECURSIVE setTargets(_, _, _, _, _)
setTargets(mesh, target, mol, inst, k) ==
    IF k > Len(inst) THEN [mesh |-> [mesh EXCEPT !.count = Len(inst)], target |-> target]
    ELSE setTargets(setMatrixAt(mesh, k - 1, At(mol.atoms, inst[k])),
                    Assign(target, k - 1, At(mol.atoms, inst[k])), mol, inst, k + 1)

\* lines 118-155: the cylinders of the target's bonds, the others hidden.
bondsTransition(mol) ==
    [count |-> Len(mol.bonds),
     bonds |-> [k \in 1..maxBonds |->
                  IF k > Len(mol.bonds) THEN HiddenCylinder
                  ELSE Cylinder(At(mol.atoms, mol.bonds[k].from),
                                At(mol.atoms, mol.bonds[k].to))]]

\* lines 178-194 of animate: instance i moves from its start towards its
\* target; start.lerp() moves the stored start itself.
RECURSIVE atomsAnimate(_, _, _, _, _)
atomsAnimate(mesh, start, target, t, i) ==
    IF i >= mesh.count THEN [mesh |-> mesh, start |-> start]
    ELSE LET stored == Has(start, i) /\ At(start, i) # Undefined
             from == IF stored THEN At(start, i) ELSE Origin
             to == IF Has(target, i) /\ At(target, i) # Undefined THEN At(target, i) ELSE from
             pos == lerpVectors(from, to, t)
         IN atomsAnimate(setMatrixAt(mesh, i, pos),
                         IF stored THEN SetAt(start, i, pos) ELSE start,
                         target, t, i + 1)

\* line 216: fullLength < 0.01.
tooShort(start, end) ==
    /\ ~start.nan /\ ~end.nan
    /\ LET d(k) == end.c[k] - start.c[k]
       IN (d(1) * d(1) + d(2) * d(2) + d(3) * d(3)) * 10000 < UNIT * UNIT

\* lines 200-243 of animate: cylinder i runs between bond i of the molecule
\* before currentSet and bond i of the molecule at currentSet.
bondEndpoint(mol, i, end) ==
    IF Has(mol.bonds, i)
    THEN At(mol.atoms, IF end = "from" THEN At(mol.bonds, i).from ELSE At(mol.bonds, i).to)
    ELSE At(mol.atoms, 0)

bondsAnimate(mesh, prev, curr, t) ==
    [count |-> Len(curr.bonds),
     bonds |-> [k \in 1..maxBonds |->
                  IF k > Max({Len(prev.bonds), Len(curr.bonds)}) THEN mesh.bonds[k]
                  ELSE LET start == lerpVectors(bondEndpoint(prev, k - 1, "from"),
                                                bondEndpoint(curr, k - 1, "from"), t)
                           end == lerpVectors(bondEndpoint(prev, k - 1, "to"),
                                              bondEndpoint(curr, k - 1, "to"), t)
                       IN IF tooShort(start, end) THEN HiddenCylinder
                          ELSE Cylinder(start, end)]]

previousSet == (currentSet + Len(POSITION_SETS) - 1) % Len(POSITION_SETS)

\* ------------------------------------------------- the viewers' actions
\* What every transition(idx) does to the animation state (lines 86-87), and
\* to the history.
beginTransition(idx) ==
    /\ animating => supersedes < MaxSupersedes /\ progress \in MidFlightPoints
    /\ progress' = 0
    /\ animating' = TRUE
    /\ lastIdx' = idx
    /\ ticks' = 0
    /\ supersedes' = IF animating THEN supersedes + 1 ELSE supersedes

\* MolecularViewer.jsx transition(idx), on the sprites and lines given.
SpriteTransition(sprites, bondLines, idx) ==
    /\ sharedSprites' =
          [k \in 1..Len(sprites) |-> spriteTransition(sprites[k], k - 1, At(POSITION_SETS, idx))]
    /\ sharedBondLines' =
          [k \in 1..Len(bondLines) |-> lineTransition(bondLines[k], k - 1, At(POSITION_SETS, idx))]
    /\ beginTransition(idx)

\* lines 128-215: init() once loadMoleculesOnce has returned: the one-time
\* setup when there is no renderer yet, and transition(0).
SpriteMount ==
    /\ viewer = "sprite"
    /\ loadState = "returned"
    /\ IF sharedRenderer
       THEN SpriteTransition(sharedSprites, sharedBondLines, 0)
       ELSE SpriteTransition([k \in 1..maxPoints |-> newSprite(At(POSITION_SETS, 0), k - 1)],
                             newBondLines(At(POSITION_SETS, 0)), 0)
    /\ sharedRenderer' = TRUE
    /\ UNCHANGED <<viewer, currentSet, instVars>>
    /\ UNCHANGED <<mapVars, loadVars, mountVars>>

\* lines 189-192: the interval timer fires.
SpriteTimer ==
    /\ viewer = "sprite"
    /\ sharedRenderer
    /\ currentSet' = (currentSet + 1) % Len(POSITION_SETS)
    /\ SpriteTransition(sharedSprites, sharedBondLines, currentSet')
    /\ UNCHANGED <<viewer, sharedRenderer, instVars>>
    /\ UNCHANGED <<mapVars, loadVars, mountVars>>

\* lines 93-117: an animation frame while animating.
SpriteAnimate ==
    /\ viewer = "sprite"
    /\ sharedRenderer
    /\ animating
    /\ progress' = advance(progress)
    /\ animating' = ~finished(progress')
    /\ LET t == ease(progress')
       IN /\ sharedSprites' = [k \in 1..Len(sharedSprites) |-> spriteAnimate(sharedSprites[k], t)]
          /\ sharedBondLines' =
                [k \in 1..Len(sharedBondLines) |-> lineAnimate(sharedBondLines[k], t)]
    /\ ticks' = ticks + 1
    /\ UNCHANGED <<viewer, sharedRenderer, currentSet, instVars, lastIdx, supersedes>>
    /\ UNCHANGED <<mapVars, loadVars, mountVars>>

\* PointCloudBillboard.jsx transition(idx), on the meshes and arrays given.
InstTransition(meshes, starts, targets, idx) ==
    LET mol == At(POSITION_SETS, idx)
        set(e) == setTargets(meshes[e], targets[e], mol, instancesOf(mol, e), 1)
    IN /\ atomStart' = [e \in DOMAIN meshes |-> savePositions(meshes[e], starts[e], 0)]
       /\ sharedAtomMeshes' = [e \in DOMAIN meshes |-> set(e).mesh]
       /\ atomTarget' = [e \in DOMAIN meshes |-> set(e).target]
       /\ sharedBondMesh' = bondsTransition(mol)
       /\ currentSet' = idx
       /\ beginTransition(idx)

\* lines 260-417: init() once loadMoleculesOnce has returned with a molecule:
\* the one-time setup when there is no renderer yet, and transition(0).
InstMount ==
    /\ viewer = "instanced"
    /\ loadState = "returned"
    /\ Len(POSITION_SETS) # 0
    /\ IF sharedRenderer
       THEN InstTransition(sharedAtomMeshes, atomStart, atomTarget, 0)
       ELSE InstTransition(initialMeshes(At(POSITION_SETS, 0)),
                           initialAtomStart(At(POSITION_SETS, 0)),
                           initialAtomTarget(At(POSITION_SETS, 0)), 0)
    /\ sharedRenderer' = TRUE
    /\ UNCHANGED <<viewer, spriteVars>>
    /\ UNCHANGED <<mapVars, loadVars, mountVars>>

\* lines 394-397: the interval timer fires.
InstTimer ==
    /\ viewer = "instanced"
    /\ sharedRenderer
    /\ InstTransition(sharedAtomMeshes, atomStart, atomTarget,
                      (currentSet + 1) % Len(POSITION_SETS))
    /\ UNCHANGED <<viewer, sharedRenderer, spriteVars>>
    /\ UNCHANGED <<mapVars, loadVars, mountVars>>

\* lines 164-250: an animation frame while animating.
InstAnimate ==
    /\ viewer = "instanced"
    /\ sharedRenderer
    /\ animating
    /\ progress' = advance(progress)
    /\ LET t == ease(progress')
           moved(e) == atomsAnimate(sharedAtomMeshes[e], atomStart[e], atomTarget[e], t, 0)
       IN /\ sharedAtomMeshes' = [e \in DOMAIN sharedAtomMeshes |-> moved(e).mesh]
          /\ atomStart' = [e \in DOMAIN sharedAtomMeshes |-> moved(e).start]
          /\ sharedBondMesh' = bondsAnimate(sharedBondMesh, At(POSITION_SETS, previousSet),
                                            At(POSITION_SETS, currentSet), t)
    /\ animating' = ~finished(progress')
    /\ ticks' = ticks + 1
    /\ UNCHANGED <<viewer, sharedRenderer, currentSet, atomTarget, spriteVars,
                   lastIdx, supersedes>>
    /\ UNCHANGED <<mapVars, loadVars, mountVars>>

\* The lists of names a mounted viewer loads: the ?compounds= of the instanced
\* viewer, and in place of the three names fixed in the sprite viewer's
\* loadMoleculesOnce.  The last one ends in a name that cannot be downloaded.
ViewerLists ==
    {<<"methane", "methanol", "ethanol">>, <<"ethanol", "methanol">>,
     <<"ammonia", "azane">>, <<"ethanol", "ether">>, <<"methanol", "unobtainium">>}

Init ==
    /\ MapIdle
    /\ MountIdle
    /\ viewer \in {"sprite", "instanced"}
    /\ ViewUnmounted
    /\ compoundsToLoad \in ViewerLists
    /\ POSITION_SETS = <<>>
    /\ loadPrev = NoMol
    /\ loadIdx = 0
    /\ loadState = "idle"
    /\ lastCall = NoCall

Next ==
    \/ LoadCall \/ LoadPush \/ LoadThrow \/ LoadReturn
    \/ SpriteMount \/ SpriteTimer \/ SpriteAnimate
    \/ InstMount \/ InstTimer \/ InstAnimate

Spec == Init /\ [][Next]_vars

\* ------------------------------------------------ claims on the mapping
Mapped(i) == At(mapping, i) # -1

\* C1: the mapping is injective: two different atoms of A that are both
\* matched are matched to different atoms of B.
C1_MapInjective ==
    \A i, k \in 0..(Len(mapping) - 1) :
        (i # k /\ Mapped(i) /\ Mapped(k)) => At(mapping, i) # At(mapping, k)

\* Two atoms of one element were both matched, the second to the B atom the
\* first one left over.
C1_Witness ==
    /\ MapDone
    /\ \E i, k \in 0..(Len(mapping) - 1) :
          /\ i < k /\ Mapped(i) /\ Mapped(k)
          /\ At(molA.elementIndexes, i) = At(molA.elementIndexes, k)

\* C2: a matched atom is matched to a valid index of B carrying the same
\* element index.
C2_MapSameElement ==
    \A i \in 0..(Len(mapping) - 1) :
        Mapped(i) =>
            /\ Has(molB.atoms, At(mapping, i))
            /\ At(molA.elementIndexes, i) = At(molB.elementIndexes, At(mapping, i))

\* An atom was matched past a B atom of another element that was still free.
C2_Witness ==
    /\ MapDone
    /\ \E i \in 0..(Len(mapping) - 1) :
          /\ Mapped(i)
          /\ \E j \in 0..(At(mapping, i) - 1) :
                /\ At(molB.elementIndexes, j) # At(molA.elementIndexes, i)
                /\ \A k \in 0..(Len(mapping) - 1) : At(mapping, k) # j

\* The neighbours of atom a in molecule m, read off its bond list.
Neighbours(m, a) ==
    {b \in 0..(Len(m.atoms) - 1) :
        \E k \in 1..Len(m.bonds) :
            {m.bonds[k].from, m.bonds[k].to} = {a, b}}

\* The B atoms atom i could take when its turn came: of i's element and not
\* taken by an atom before i.
FreeFor(i) ==
    {j \in 0..(Len(molB.atoms) - 1) :
        /\ At(molB.elementIndexes, j) = At(molA.elementIndexes, i)
        /\ \A n \in 0..(i - 1) : At(mapping, n) # j}

ScoreOf(i, j) ==
    Cardinality({n \in Neighbours(molA, i) :
        n < i /\ Mapped(n) /\ At(mapping, n) \in Neighbours(molB, j)})

GreedyChoice(i) ==
    IF FreeFor(i) = {} THEN At(mapping, i) = -1
    ELSE /\ At(mapping, i) \in FreeFor(i)
         /\ \A j \in FreeFor(i) :
               \/ ScoreOf(i, j) < ScoreOf(i, At(mapping, i))
               \/ /\ ScoreOf(i, j) = ScoreOf(i, At(mapping, i))
                  /\ At(mapping, i) <= j

\* C3: atoms are processed in ascending order and a step changes no entry but
\* the one of the atom it processes; in the returned mapping each atom holds
\* the B atom that was free at its turn, of its element and of highest score,
\* the lowest index on ties, and is unmatched only when none was free.
C3_MapGreedy ==
    /\ [](\A i \in 0..(Len(mapping) - 1) :
            /\ i >= mi => ~Mapped(i)
            /\ MapDone => GreedyChoice(i))
    /\ [][/\ mi' = mi + 1
          /\ \A i \in 0..(Len(mapping) - 1) :
                i # mi => At(mapping', i) = At(mapping, i)]_vars

\* A tie between two free atoms, and elsewhere a higher score won by a higher
\* index and an atom left unmatched.
C3_Witness ==
    /\ MapDone
    /\ \E i \in 0..(Len(mapping) - 1) :
          /\ Mapped(i)
          /\ \E j \in FreeFor(i) :
                j < At(mapping, i) /\ ScoreOf(i, j) < ScoreOf(i, At(mapping, i))
    /\ \E i \in 0..(Len(mapping) - 1) : ~Mapped(i)

SameStructure ==
    /\ Len(molA.atoms) = Len(molB.atoms)
    /\ molA.elementIndexes = molB.elementIndexes
    /\ molA.bonds = molB.bonds

\* C4: for two molecules with the same atom count, element tags and bond list
\* the mapping is the identity, wherever B's atoms lie.
C4_MapIdentity ==
    (MapDone /\ SameStructure) =>
        \A i \in 0..(Len(mapping) - 1) : At(mapping, i) = i

\* The triangle scenario: three carbons, bonds (0,1),(1,2), B turned and moved.
C4_Witness ==
    /\ MapDone /\ SameStructure
    /\ molA.elementIndexes = <<1, 1, 1>>
    /\ molA.bonds = <<[from |-> 0, to |-> 1, type |-> 1], [from |-> 1, to |-> 2, type |-> 1]>>
    /\ molB.atoms # molA.atoms

\* ------------------------------------------------- claims on the loader
\* C5: when a molecule is aligned to its predecessor on fewer than 3 matched
\* pairs (0, 1 or 2), the transform its atoms undergo is exactly the identity:
\* every atom leaves the alignment step as R = identity, t = 0 maps it, which
\* is where it was parsed.
C5_FewPairsIdentity ==
    (lastCall.mapped /\ lastCall.pairs < 3) =>
        /\ Len(lastCall.after) = Len(lastCall.before)
        /\ \A k \in 1..Len(lastCall.before) :
              /\ lastCall.after[k] = applyTransform(IdentityTransform, lastCall.before[k])
              /\ lastCall.after[k] = lastCall.before[k]

\* A molecule of three atoms was matched to its predecessor in two pairs only.
C5_Witness ==
    /\ lastCall.mapped
    /\ lastCall.pairs = 2
    /\ Len(lastCall.before) = 3

\* Whether the record of a name parses to a molecule: it is found, has its 4
\* header lines and at least one atom line whose coordinates parse.
Loadable(name) ==
    /\ Catalogue[name].found
    /\ Catalogue[name].lines >= 4
    /\ \E k \in 1..Len(Catalogue[name].body) :
          k <= Catalogue[name].atomCount /\ coordsParsed(Catalogue[name].body[k])

LoadOver == loadState \in {"returned", "rejected"}

\* C8: a failure on one compound skips that compound only: when the load is
\* over the sequence holds one molecule for each name of the list that can be
\* loaded, those after a failed one included, and nothing for the others.
C8_SkipOnlyFailed ==
    LoadOver =>
        Len(POSITION_SETS) =
            Cardinality({k \in 1..Len(compoundsToLoad) : Loadable(compoundsToLoad[k])})

\* ------------------------------------------------ claims on the viewers
\* A step that calls transition(), and a state with a transition in flight.
TransitionCalled == SpriteMount \/ SpriteTimer \/ InstMount \/ InstTimer

AnimateTick == SpriteAnimate \/ InstAnimate

MidFlight == animating /\ 0 < progress /\ progress < ProgressOne

\* C6: in both viewers progress stays within [0, 1] in every reachable state,
\* no animate tick lowers it, and the only steps that lower it are calls of
\* transition(), which set it to 0.
C6_ProgressMonotone ==
    /\ [](progress >= 0 /\ progress <= ProgressOne)
    /\ [][AnimateTick => progress' >= progress]_vars
    /\ [][progress' < progress => TransitionCalled /\ progress' = 0]_vars

\* The timer has fired and the frames since have taken progress up to 1.
C6_Witness ==
    /\ currentSet # 0
    /\ ticks > 0
    /\ progress = ProgressOne

\* C7: when transition() is called with 0 < progress < 1, every atom slot's
\* captured start is the position the slot is drawn at when the call is made,
\* and every bond's start endpoints are the endpoints the bond is drawn with
\* when the call is made.
C7_StartsFromCurrent ==
    [][(TransitionCalled /\ MidFlight) =>
        /\ \A k \in 1..Len(sharedSprites) :
              sharedSprites'[k].start = sharedSprites[k].position
        /\ \A k \in 1..Len(sharedBondLines) :
              /\ sharedBondLines'[k].startStart = sharedBondLines[k].geomStart
              /\ sharedBondLines'[k].startEnd = sharedBondLines[k].geomEnd
        /\ \A e \in DOMAIN sharedAtomMeshes :
              \A i \in 0..(sharedAtomMeshes[e].count - 1) :
                 Has(sharedAtomMeshes[e].matrix, i)
                 => At(atomStart'[e], i) = At(sharedAtomMeshes[e].matrix, i)
        /\ viewer = "instanced" =>
              \A k \in 1..sharedBondMesh.count :
                 LET from == At(POSITION_SETS,
                                (currentSet' + Len(POSITION_SETS) - 1) % Len(POSITION_SETS))
                 IN ~sharedBondMesh.bonds[k].hidden
                    => /\ bondEndpoint(from, k - 1, "from") = sharedBondMesh.bonds[k].start
                       /\ bondEndpoint(from, k - 1, "to") = sharedBondMesh.bonds[k].end
    ]_vars

\* C9: after transition(idx), sprite i aims at the target atom a with
\* atomMapping[a] = i and at opacity 1 when there is such an atom, else at
\* atoms[i] and opacity 1 when i is an atom index of the target, and else at
\* its own start and opacity 0.
C9_TargetsFollowMapping ==
    (viewer = "sprite" /\ lastIdx # -1) =>
        LET mol == At(POSITION_SETS, lastIdx)
            successors(i) == {a \in 0..(Len(mol.atomMapping) - 1) : At(mol.atomMapping, a) = i}
        IN \A i \in 0..(Len(sharedSprites) - 1) :
              LET s == At(sharedSprites, i)
              IN IF successors(i) # {}
                 THEN /\ \E a \in successors(i) : s.target = At(mol.atoms, a)
                      /\ s.fadeEnd = UNIT
                 ELSE IF i < Len(mol.atoms)
                 THEN s.target = At(mol.atoms, i) /\ s.fadeEnd = UNIT
                 ELSE s.target = s.start /\ s.fadeEnd = 0

\* C10: after a transition() the 50th animate tick, and no earlier one,
\* leaves progress = 1 and animating = false; a tick can always be taken while
\* animating; and from the first transition() on, animating is true exactly
\* when progress < 1.
C10_ReachesIdle ==
    lastIdx # -1 =>
        /\ animating <=> progress < ProgressOne
        /\ ticks < 50 => animating /\ progress < ProgressOne
        /\ ticks >= 50 => ~animating /\ progress = ProgressOne
        /\ animating => ENABLED AnimateTick

\* The 50th tick of a transition that began while another was in flight.
C10_Witness ==
    /\ supersedes > 0
    /\ ticks = 50
    /\ progress = ProgressOne
    /\ ~animating

TimerFires == SpriteTimer \/ InstTimer

\* C11: from the first transition() on, currentSet is the index the most
\* recent transition() was called with and lies within 0..N-1, and every
\* firing of the timer calls transition() with the index after that one,
\* cyclically.
C11_TimerAdvancesFromLast ==
    /\ [](lastIdx # -1 =>
            /\ currentSet = lastIdx
            /\ currentSet \in 0..(Len(POSITION_SETS) - 1))
    /\ [][TimerFires => lastIdx' = (lastIdx + 1) % Len(POSITION_SETS)]_vars

\* C12: at every progress p a tick leaves, the eased factor is 2 p^2 when
\* p < 0.5 and 1 - 2 (1 - p)^2 otherwise; it is 0 at 0, 0.5 at 0.5 and 1 at 1;
\* and it never decreases from one tick to the next.
C12_EaseFunction ==
    /\ [](/\ 2 * progress < ProgressOne => ease(progress) = 2 * progress * progress
          /\ 2 * progress >= ProgressOne =>
                ease(progress) = EaseOne - 2 * (ProgressOne - progress) * (ProgressOne - progress)
          /\ progress = 0 => ease(progress) = 0
          /\ 2 * progress = ProgressOne => 2 * ease(progress) = EaseOne
          /\ progress = ProgressOne => ease(progress) = EaseOne)
    /\ [][AnimateTick => ease(progress') >= ease(progress)]_vars

\* The 25th tick, which leaves progress at 0.5 and takes the second branch.
C12_Witness ==
    /\ ticks = 25
    /\ 2 * progress = ProgressOne
    /\ 2 * ease(progress) = EaseOne

\* ------------------------------------------ claims on getMoleculePoints
\* The molecule the last call returned, its atoms before lines 264-289, and
\* their bounding box.
Returned == POSITION_SETS[Len(POSITION_SETS)]

BoxLo(atoms, d) == Min({atoms[k].c[d] : k \in 1..Len(atoms)})
BoxHi(atoms, d) == Max({atoms[k].c[d] : k \in 1..Len(atoms)})
BoxMaxDim(atoms) == Max({BoxHi(atoms, d) - BoxLo(atoms, d) : d \in 1..3})

Abs(x) == IF x < 0 THEN -x ELSE x

\* C13: every molecule getMoleculePoints returns has a bounding box whose
\* midpoint is the origin on each axis and whose largest dimension is at most
\* 1, and its atoms are the atoms before normalisation moved by one vector and
\* scaled by 1 when their largest dimension was at most 1 and by 1 / maxDim
\* otherwise (all to within one unit of the fixed-point grid).
C13_Normalized ==
    (loadState = "running" /\ Len(POSITION_SETS) > 0) =>
        LET out == Returned.atoms
            in == lastCall.after
            maxDim == BoxMaxDim(in)
        IN /\ ~AnyNaN(out)
           /\ \A d \in 1..3 :
                 /\ Abs(BoxLo(out, d) + BoxHi(out, d)) <= 1
                 /\ BoxHi(out, d) - BoxLo(out, d) <= UNIT + 1
           /\ \A k, j \in 1..Len(out) : \A d \in 1..3 :
                 IF maxDim <= UNIT
                 THEN out[k].c[d] - out[j].c[d] = in[k].c[d] - in[j].c[d]
                 ELSE Abs((out[k].c[d] - out[j].c[d]) * maxDim
                          - (in[k].c[d] - in[j].c[d]) * UNIT) <= maxDim

\* C14: every molecule in the published sequence has as many element
\* indexes as atoms, and every bond of it joins two different atoms that
\* both exist.
C14_MoleculeInvariant ==
    \A m \in 1..Len(POSITION_SETS) :
        LET mol == POSITION_SETS[m]
        IN /\ Len(mol.atoms) = Len(mol.elementIndexes)
           /\ \A b \in 1..Len(mol.bonds) :
                 /\ mol.bonds[b].from # mol.bonds[b].to
                 /\ Has(mol.atoms, mol.bonds[b].from)
                 /\ Has(mol.atoms, mol.bonds[b].to)

\* The pairs the last call handed to computeAlignment, and whether a list of
\* points lies on one line.
LastPairs ==
    matchedPairs(lastCall.before, Returned.atomMapping,
                 POSITION_SETS[Len(POSITION_SETS) - 1].atoms, 0)

Cross(u, v) ==
    <<u[2] * v[3] - u[3] * v[2], u[3] * v[1] - u[1] * v[3], u[1] * v[2] - u[2] * v[1]>>

Collinear(points) ==
    LET d(k) == [x \in 1..3 |-> points[k].c[x] - points[1].c[x]]
    IN \A i, j \in 1..Len(points) : Cross(d(i), d(j)) = <<0, 0, 0>>

Orthonormal(R) ==
    \A r, c \in 1..3 :
        R[r][1] * R[c][1] + R[r][2] * R[c][2] + R[r][3] * R[c][3] = (IF r = c THEN 1 ELSE 0)

AlignedNonCollinear ==
    /\ loadState = "running"
    /\ lastCall.called
    /\ Len(LastPairs) >= 3
    /\ ~Collinear([k \in 1..Len(LastPairs) |-> LastPairs[k].a])
    /\ ~Collinear([k \in 1..Len(LastPairs) |-> LastPairs[k].b])

\* C15: when computeAlignment is given at least 3 matched pairs that do not
\* lie on one line, the R it returns is orthonormal and has determinant +1.
C15_ProperRotation ==
    AlignedNonCollinear =>
        /\ ~lastCall.transform.nan
        /\ Orthonormal(lastCall.transform.R)
        /\ Triple(lastCall.transform.R[1], lastCall.transform.R[2],
                  lastCall.transform.R[3]) = 1

\* The atom slots drawn: the sprites aiming at opacity 1, and the counted
\* instances that have a matrix; each with the target it aims at and the
\* position it is drawn at.
VisibleSlots ==
    IF viewer = "sprite"
    THEN {[target |-> sharedSprites[k].target, position |-> sharedSprites[k].position]
            : k \in {n \in 1..Len(sharedSprites) : sharedSprites[n].fadeEnd = UNIT}}
    ELSE UNION {
            {[target |-> At(atomTarget[e], i), position |-> At(sharedAtomMeshes[e].matrix, i)]
                : i \in {n \in 0..(sharedAtomMeshes[e].count - 1) :
                            Has(sharedAtomMeshes[e].matrix, n) /\ Has(atomTarget[e], n)}}
            : e \in DOMAIN sharedAtomMeshes}

\* The bonds drawn, each with its two drawn endpoints and the two atoms of the
\* target molecule it connects.
RenderedBonds ==
    LET mol == At(POSITION_SETS, lastIdx)
    IN IF viewer = "sprite"
       THEN {[start |-> sharedBondLines[k].geomStart, end |-> sharedBondLines[k].geomEnd,
              from |-> At(mol.atoms, mol.bonds[k].from), to |-> At(mol.atoms, mol.bonds[k].to)]
                : k \in {n \in 1..Min({Len(sharedBondLines), Len(mol.bonds)}) :
                            bondInRange(mol, mol.bonds[n])}}
       ELSE {[start |-> sharedBondMesh.bonds[k].start, end |-> sharedBondMesh.bonds[k].end,
              from |-> At(mol.atoms, mol.bonds[k].from), to |-> At(mol.atoms, mol.bonds[k].to)]
                : k \in {n \in 1..Min({sharedBondMesh.count, maxBonds}) :
                            ~sharedBondMesh.bonds[n].hidden}}

\* C16: after every animate tick of a transition, each bond drawn has its two
\* endpoints at the positions at which the two atom slots it connects (the
\* slots aiming at the bond's two atoms of the target molecule) are drawn.
C16_BondsFollowAtoms ==
    (lastIdx # -1 /\ ticks > 0) =>
        \A b \in RenderedBonds :
            /\ \E s \in VisibleSlots : s.target = b.from /\ s.position = b.start
            /\ \E s \in VisibleSlots : s.target = b.to /\ s.position = b.end

\* The instances of element e that have a matrix, a start and a target.
MovingInstances(e) ==
    {i \in 0..(sharedAtomMeshes[e].count - 1) :
        /\ Has(sharedAtomMeshes[e].matrix, i)
        /\ Has(atomStart[e], i) /\ At(atomStart[e], i) # Undefined
        /\ Has(atomTarget[e], i) /\ At(atomTarget[e], i) # Undefined}

\* C17: an animate tick leaves every slot's captured start and target as
\* transition() set them and puts the slot at start + (target - start) * t for
\* the eased t of the tick; and at progress = 1 every slot is at its target,
\* with its target opacity.
C17_TickInterpolates ==
    /\ [][AnimateTick =>
            /\ \A k \in 1..Len(sharedSprites) :
                  /\ sharedSprites'[k].start = sharedSprites[k].start
                  /\ sharedSprites'[k].target = sharedSprites[k].target
                  /\ sharedSprites'[k].position =
                        lerpVectors(sharedSprites[k].start, sharedSprites[k].target,
                                    ease(progress'))
            /\ \A e \in DOMAIN sharedAtomMeshes :
                  /\ atomStart'[e] = atomStart[e]
                  /\ atomTarget'[e] = atomTarget[e]
                  /\ \A i \in MovingInstances(e) :
                        At(sharedAtomMeshes'[e].matrix, i) =
                           lerpVectors(At(atomStart[e], i), At(atomTarget[e], i),
                                       ease(progress'))]_vars
    /\ []((lastIdx # -1 /\ progress = ProgressOne) =>
            /\ \A k \in 1..Len(sharedSprites) :
                  /\ sharedSprites[k].position = sharedSprites[k].target
                  /\ sharedSprites[k].opacity = sharedSprites[k].fadeEnd
            /\ \A e \in DOMAIN sharedAtomMeshes :
                  \A i \in MovingInstances(e) :
                     At(sharedAtomMeshes[e].matrix, i) = At(atomTarget[e], i))

\* ------------------------------------- claims on concurrent mounts
\* A call of loadMoleculesOnce has returned to its init(), which goes on to
\* build the scene and start the timer.
InitProceeds == loadState = "returned" \/ mountState = "returned"

\* Every name is one whose record getMoleculePoints parses into a molecule
\* with each bond between two of its atoms, so that no call throws.
AllLoadable ==
    \A k \in 1..Len(compoundsToLoad) :
        \A o \in getMoleculePoints(compoundsToLoad[k], NoMol) :
            /\ o.ok
            /\ \A n \in 1..Len(o.mol.bonds) :
                  /\ Has(o.mol.atoms, o.mol.bonds[n].from)
                  /\ Has(o.mol.atoms, o.mol.bonds[n].to)

CallsOver ==
    /\ loadState \in {"returned", "rejected"}
    /\ mountState \in {"returned", "rejected"}

\* Entry k of POSITION_SETS is the molecule of the k-th name, mapped against
\* entry k - 1.
EntryOf(k) ==
    LET mol == POSITION_SETS[k]
    IN /\ \E o \in getMoleculePoints(compoundsToLoad[k], NoMol) :
             o.ok /\ o.mol.elementIndexes = mol.elementIndexes /\ o.mol.bonds = mol.bonds
       /\ k = 1 => mol.atomMapping = NoMapping
       /\ k > 1 => mol.atomMapping = computeAtomMapping(mol, POSITION_SETS[k - 1])

\* C18: for names that can all be loaded, whatever the interleaving of two
\* mounts' calls of loadMoleculesOnce, no call returns to its init() before
\* POSITION_SETS holds every compound, and once both calls are over
\* POSITION_SETS holds exactly one entry per name, in the order of the names,
\* each mapped against the entry before it.
C18_LoadedOnceInOrder ==
    AllLoadable =>
        /\ InitProceeds => Len(POSITION_SETS) = Len(compoundsToLoad)
        /\ CallsOver =>
              /\ Len(POSITION_SETS) = Len(compoundsToLoad)
              /\ \A k \in 1..Len(POSITION_SETS) : EntryOf(k)

\* ------------------------------------------------ claims on the slots
\* The visible atom slots aiming at the point p: the sprites fading to
\* opacity 1, and the counted instances of every element.
SlotsAiming(p) ==
    IF viewer = "sprite"
    THEN {<<0, k>> : k \in {n \in 1..Len(sharedSprites) :
                              sharedSprites[n].fadeEnd = UNIT /\ sharedSprites[n].target = p}}
    ELSE UNION {{<<e, i>> : i \in {n \in 0..(sharedAtomMeshes[e].count - 1) :
                                     Has(atomTarget[e], n) /\ At(atomTarget[e], n) = p}}
                  : e \in DOMAIN sharedAtomMeshes}

\* The atoms of a molecule lie at finite, pairwise different points.
DistinctAtoms(mol) ==
    /\ ~AnyNaN(mol.atoms)
    /\ \A a, b \in 1..Len(mol.atoms) : a # b => mol.atoms[a] # mol.atoms[b]

\* C19: after transition(idx) every atom of the target molecule is the target
\* of exactly one visible atom slot, and in the instanced viewer no element's
\* instance count exceeds the capacity its mesh was created with.
C19_OneSlotPerAtom ==
    (lastIdx # -1 /\ DistinctAtoms(At(POSITION_SETS, lastIdx))) =>
        /\ \A a \in 1..Len(At(POSITION_SETS, lastIdx).atoms) :
              Cardinality(SlotsAiming(At(POSITION_SETS, lastIdx).atoms[a])) = 1
        /\ \A e \in DOMAIN sharedAtomMeshes :
              sharedAtomMeshes[e].count <= Len(sharedAtomMeshes[e].matrix)

====
